---- MODULE Spec2Model ----
(***************************************************************************)
(* Cache attach / detach of lib/metadata/cache_manip.c (LVM2).             *)
(*                                                                         *)
(* lv_cache_create and lv_cache_remove are modelled step by step: one      *)
(* action per call of an external primitive, with the primitive's failure  *)
(* as a nondeterministic outcome.  The primitives themselves live in other *)
(* files of LVM2 (lv_manip.c, metadata.c, activate.c ...); they are        *)
(* modelled as operators on a volume graph, following the interface        *)
(* description of the specification.                                       *)
(***************************************************************************)
EXTENDS Integers, Sequences, FiniteSets, TLC

VARIABLES
    lvs,            \* in-memory volume group: LV name -> logical_volume
    committed,      \* authoritative persisted metadata (a volume graph)
    precommitted,   \* staged metadata written by vg_write
    staged,         \* TRUE while precommitted metadata awaits vg_commit
    suspended,      \* LVs whose live mapping is suspended
    active,         \* LVs activated by activate_lv and not yet deactivated
    ncalls,         \* calls made so far
    pc,             \* position of the caller inside the running function
    op,             \* function running or last run: "none", "create", "remove"
    arg_pool,       \* lv_cache_create: pool
    arg_lv,         \* lv_cache_create: origin / lv_cache_remove: cache_lv
    segtype,        \* local: segtype
    policy_name,    \* local: policy_name
    dirty_blocks,   \* local: dirty_blocks (Uninit until the first query)
    cache_pool_lv,  \* local: cache_pool_lv
    origin_lv,      \* local: origin_lv
    ret,            \* value returned by the last call
    hist,           \* primitives called by the running / last call, in order
    entry,          \* state at the entry of the running / last call
    rt              \* origin as it was before the last successful attach

vars == <<lvs, committed, precommitted, staged, suspended, active, ncalls, pc,
          op, arg_pool, arg_lv, segtype, policy_name, dirty_blocks,
          cache_pool_lv, origin_lv, ret, hist, entry, rt>>

(***************************************************************************)
(* Bounds and fixed universes                                              *)
(***************************************************************************)
MaxDirty == 2
MaxCalls == 3

NULL == "NULL"

\* dirty_blocks before the first query has written it (declared without a
\* value, never read before the query).
Uninit == -1
FAIL == "FAIL"
OK == "OK"

NoRoundTrip == [valid |-> FALSE, name |-> NULL, segments |-> <<>>, le_count |-> 0]

\* LV names a caller passes to the two functions.
ArgLVs == {"lv0", "lv1", "pool0"}

\* Policy names the kernel can report for a cache device.
Policies == {"mq", "cleaner"}

(***************************************************************************)
(* Volume graph: segments and logical volumes                              *)
(***************************************************************************)
Segment(type, len, lv0, pool, pname, pargc, data) ==
    [segtype |-> type, len |-> len, lv0 |-> lv0, pool_lv |-> pool,
     policy_name |-> pname, policy_argc |-> pargc, data |-> data]

LinearSeg(len, data) == Segment("striped", len, NULL, NULL, "", 0, data)

LV(status, segs, le_count, users) ==
    [status |-> status, segments |-> segs, le_count |-> le_count,
     segs_using_this_lv |-> users]

first_seg(g, lv) == g[lv].segments[1]

seg_lv0(g, lv) == first_seg(g, lv).lv0

lv_is_cache(g, lv) == "CACHE" \in g[lv].status

lv_is_cache_pool(g, lv) == "CACHE_POOL" \in g[lv].status

lv_is_cache_type(g, lv) == g[lv].status \cap {"CACHE", "CACHE_POOL"} # {}

\* LVs a segment of lv maps onto or references.
SubLVs(g, lv) ==
    {g[lv].segments[i].lv0 : i \in DOMAIN g[lv].segments}
        \cup {g[lv].segments[i].pool_lv : i \in DOMAIN g[lv].segments}

RECURSIVE Closure(_, _)
Closure(g, S) ==
    LET T == (S \cup UNION {SubLVs(g, n) : n \in S \cap DOMAIN g}) \ {NULL}
    IN  IF T = S THEN S ELSE Closure(g, T)

\* The device stack below lv in graph g.
Stack(g, lv) == Closure(g, {lv} \ {NULL})

(***************************************************************************)
(* Graph primitives called by the two functions                            *)
(***************************************************************************)
layer_name(lv_where, layer_suffix) == lv_where \o layer_suffix

insert_layer_for_lv(g, lv_where, status, layer_suffix) ==
    LET name == layer_name(lv_where, layer_suffix)
        layer == LV({}, g[lv_where].segments, g[lv_where].le_count, {lv_where})
        mapseg == Segment("striped", g[lv_where].le_count, name, NULL, "", 0, "")
    IN  [n \in DOMAIN g \cup {name} |->
            IF n = name THEN layer
            ELSE IF n = lv_where
                 THEN [g[n] EXCEPT !.segments = <<mapseg>>,
                                   !.status = @ \cup {status}]
                 ELSE g[n]]

set_first_segtype(g, lv, type) ==
    [g EXCEPT ![lv].segments[1].segtype = type]

attach_pool_lv(g, lv, pool) ==
    [g EXCEPT ![lv].segments[1].pool_lv = pool,
              ![pool].segs_using_this_lv = @ \cup {lv}]

detach_pool_lv(g, lv) ==
    LET pool == first_seg(g, lv).pool_lv
    IN  [g EXCEPT ![lv].segments[1].pool_lv = NULL,
                  ![pool].segs_using_this_lv = @ \ {lv}]

lv_set_visible(g, lv) == [g EXCEPT ![lv].status = @ \cup {"VISIBLE_LV"}]

remove_seg_from_segs_using_this_lv(g, lv, user) ==
    [g EXCEPT ![lv].segs_using_this_lv = @ \ {user}]

move_lv_segments(g, lv_to, lv_from) ==
    [g EXCEPT ![lv_to].segments = g[lv_from].segments,
              ![lv_to].le_count = g[lv_from].le_count,
              ![lv_from].segments = <<>>,
              ![lv_from].le_count = 0]

lv_add_virtual_segment(g, lv, extents, type) ==
    [g EXCEPT ![lv].segments =
                  Append(@, Segment(type, extents, NULL, NULL, "", 0, "")),
              ![lv].le_count = @ + extents]

lv_remove(g, lv) == [n \in DOMAIN g \ {lv} |-> g[n]]

set_policy(g, lv, pname) ==
    [g EXCEPT ![lv].segments[1].policy_name = pname,
              ![lv].segments[1].policy_argc = 0]

(***************************************************************************)
(* Initial volume groups                                                   *)
(***************************************************************************)
BaseVG ==
    [n \in ArgLVs |->
        CASE n = "lv0" ->
                LV({"VISIBLE_LV"}, <<LinearSeg(1, "a"), LinearSeg(2, "b")>>, 3, {})
          [] n = "lv1" ->
                LV({"VISIBLE_LV"}, <<LinearSeg(2, "c")>>, 2, {})
          [] OTHER ->
                LV({"VISIBLE_LV", "CACHE_POOL"},
                   <<Segment("cache_pool", 1, NULL, NULL, "", 0, n)>>, 1, {})]

\* The graph a successful lv_cache_create leaves, with a policy configured.
CachedVG(g, pool, origin, pname, pargc) ==
    LET g1 == insert_layer_for_lv(g, origin, "CACHE", "_corig")
        g2 == set_first_segtype(g1, origin, "cache")
        g3 == attach_pool_lv(g2, origin, pool)
    IN  [g3 EXCEPT ![origin].segments[1].policy_name = pname,
                   ![origin].segments[1].policy_argc = pargc]

InitVGs == {BaseVG, CachedVG(BaseVG, "pool0", "lv0", "mq", 1)}

Init ==
    /\ lvs \in InitVGs
    /\ committed = lvs
    /\ precommitted = lvs
    /\ staged = FALSE
    /\ suspended = {}
    /\ active = {}
    /\ ncalls = 0
    /\ pc = "idle"
    /\ op = "none"
    /\ arg_pool = NULL
    /\ arg_lv = NULL
    /\ segtype = NULL
    /\ policy_name = NULL
    /\ dirty_blocks = Uninit
    /\ cache_pool_lv = NULL
    /\ origin_lv = NULL
    /\ ret = "none"
    /\ hist = <<>>
    /\ entry = [lvs |-> lvs, committed |-> lvs, precommitted |-> lvs,
                staged |-> FALSE, suspended |-> {}, active |-> {}]
    /\ rt = NoRoundTrip

(***************************************************************************)
(* Bookkeeping shared by the actions                                       *)
(***************************************************************************)
Called(e) == hist' = Append(hist, e)

Failed(e) == e \o ":fail"

Return(v) == pc' = "idle" /\ ret' = v

Snapshot ==
    [lvs |-> lvs, committed |-> committed, precommitted |-> precommitted,
     staged |-> staged, suspended |-> suspended, active |-> active]

Memory == <<lvs>>
Disk == <<committed, precommitted, staged>>
Kernel == <<suspended, active>>
Args == <<op, arg_pool, arg_lv, entry, ncalls>>
Locals == <<segtype, policy_name, dirty_blocks, cache_pool_lv, origin_lv>>

(***************************************************************************)
(* lv_cache_create(pool, origin)                                           *)
(***************************************************************************)
\* CreateCall without the lv_is_cache_pool check.
CreateCall_NoPoolCheck ==
    /\ pc = "idle"
    /\ ncalls < MaxCalls
    /\ ncalls' = ncalls + 1
    /\ \E pool \in ArgLVs, origin \in ArgLVs :
        /\ op' = "create"
        /\ arg_pool' = pool
        /\ arg_lv' = origin
        /\ entry' = Snapshot
        /\ rt' = [valid |-> TRUE, name |-> origin,
                  segments |-> lvs[origin].segments,
                  le_count |-> lvs[origin].le_count]
        /\ hist' = <<>>
        /\ segtype' = NULL
        /\ policy_name' = NULL
        /\ dirty_blocks' = Uninit
        /\ cache_pool_lv' = NULL
        /\ origin_lv' = origin
        /\ IF lv_is_cache_type(lvs, origin)
              THEN Return(FAIL)
              ELSE pc' = "c_segtype" /\ ret' = "none"
    /\ UNCHANGED <<Memory, Disk, Kernel>>

\* CreateCall without the lv_is_cache_type check.
CreateCall_NoOriginCheck ==
    /\ pc = "idle"
    /\ ncalls < MaxCalls
    /\ ncalls' = ncalls + 1
    /\ \E pool \in ArgLVs, origin \in ArgLVs :
        /\ op' = "create"
        /\ arg_pool' = pool
        /\ arg_lv' = origin
        /\ entry' = Snapshot
        /\ rt' = [valid |-> TRUE, name |-> origin,
                  segments |-> lvs[origin].segments,
                  le_count |-> lvs[origin].le_count]
        /\ hist' = <<>>
        /\ segtype' = NULL
        /\ policy_name' = NULL
        /\ dirty_blocks' = Uninit
        /\ cache_pool_lv' = NULL
        /\ origin_lv' = origin
        /\ IF ~lv_is_cache_pool(lvs, pool)
              THEN Return(FAIL)
              ELSE pc' = "c_segtype" /\ ret' = "none"
    /\ UNCHANGED <<Memory, Disk, Kernel>>

\* Call, and the two argument checks.
CreateCall ==
    /\ pc = "idle"
    /\ ncalls < MaxCalls
    /\ ncalls' = ncalls + 1
    /\ \E pool \in ArgLVs, origin \in ArgLVs :
        /\ op' = "create"
        /\ arg_pool' = pool
        /\ arg_lv' = origin
        /\ entry' = Snapshot
        /\ rt' = [valid |-> TRUE, name |-> origin,
                  segments |-> lvs[origin].segments,
                  le_count |-> lvs[origin].le_count]
        /\ hist' = <<>>
        /\ segtype' = NULL
        /\ policy_name' = NULL
        /\ dirty_blocks' = Uninit
        /\ cache_pool_lv' = NULL
        /\ origin_lv' = origin
        /\ IF ~lv_is_cache_pool(lvs, pool)
              THEN Return(FAIL)
              ELSE IF lv_is_cache_type(lvs, origin)
                     THEN Return(FAIL)
                     ELSE pc' = "c_segtype" /\ ret' = "none"
    /\ UNCHANGED <<Memory, Disk, Kernel>>

\* get_segtype_from_string(cmd, "cache")
CreateSegtype ==
    /\ pc = "c_segtype"
    /\ \/ /\ segtype' = "cache"
          /\ Called("get_segtype")
          /\ pc' = "c_insert_layer"
          /\ UNCHANGED ret
       \/ /\ Called(Failed("get_segtype"))
          /\ Return(FAIL)
          /\ UNCHANGED segtype
    /\ UNCHANGED <<Memory, Disk, Kernel, Args, rt, policy_name, dirty_blocks,
                   cache_pool_lv, origin_lv>>

\* cache_lv = origin; origin = insert_layer_for_lv(cmd, cache_lv, CACHE, "_corig")
CreateInsertLayer ==
    /\ pc = "c_insert_layer"
    /\ \/ /\ layer_name(arg_lv, "_corig") \notin DOMAIN lvs
          /\ lvs' = insert_layer_for_lv(lvs, arg_lv, "CACHE", "_corig")
          /\ origin_lv' = layer_name(arg_lv, "_corig")
          /\ Called("insert_layer_for_lv")
          /\ pc' = "c_attach_pool"
          /\ UNCHANGED ret
       \/ /\ Called(Failed("insert_layer_for_lv"))
          /\ Return(FAIL)
          /\ UNCHANGED <<lvs, origin_lv>>
    /\ UNCHANGED <<Disk, Kernel, Args, rt, segtype, policy_name, dirty_blocks,
                   cache_pool_lv>>

\* seg = first_seg(cache_lv); seg->segtype = segtype; attach_pool_lv(seg, pool)
CreateAttachPool ==
    /\ pc = "c_attach_pool"
    /\ LET typed == set_first_segtype(lvs, arg_lv, segtype)
       IN  \/ /\ lvs' = attach_pool_lv(typed, arg_lv, arg_pool)
              /\ Called("attach_pool_lv")
              /\ Return(arg_lv)
           \/ /\ lvs' = typed
              /\ Called(Failed("attach_pool_lv"))
              /\ Return(FAIL)
    /\ UNCHANGED <<Disk, Kernel, Args, rt, Locals>>

(***************************************************************************)
(* Metadata transaction and live-mapping primitives                        *)
(***************************************************************************)
\* vg_write: stage the in-memory graph as precommitted metadata.
vg_write_ok ==
    /\ precommitted' = lvs
    /\ staged' = TRUE
    /\ UNCHANGED committed

\* vg_commit: the staged metadata becomes authoritative.
vg_commit_ok ==
    /\ staged
    /\ committed' = precommitted
    /\ staged' = FALSE
    /\ UNCHANGED precommitted

\* suspend_lv: suspends lv and every LV of its stack, in the live (committed)
\* graph and in the staged one.
suspend_lv_ok(lv) ==
    /\ suspended' = suspended \cup Stack(committed, lv)
                        \cup (IF staged THEN Stack(precommitted, lv) ELSE {})
    /\ UNCHANGED active

\* resume_lv: resumes lv and the stack the authoritative metadata gives it.
resume_lv_ok(lv) ==
    /\ suspended' = suspended \ Stack(committed, lv)
    /\ UNCHANGED active

(***************************************************************************)
(* lv_cache_remove(cache_lv)                                               *)
(***************************************************************************)
\* RemoveCall without the lv_is_cache check.
RemoveCall_NoCacheCheck ==
    /\ pc = "idle"
    /\ ncalls < MaxCalls
    /\ ncalls' = ncalls + 1
    /\ \E cache_lv \in ArgLVs :
        /\ arg_lv' = cache_lv
        /\ rt' = IF op = "create" /\ ret = cache_lv /\ rt.name = cache_lv
                   THEN rt ELSE NoRoundTrip
        /\ pc' = "r_policy_info" /\ ret' = "none"
    /\ op' = "remove"
    /\ arg_pool' = NULL
    /\ entry' = Snapshot
    /\ hist' = <<>>
    /\ segtype' = NULL
    /\ policy_name' = NULL
    /\ dirty_blocks' = Uninit
    /\ cache_pool_lv' = NULL
    /\ origin_lv' = NULL
    /\ UNCHANGED <<Memory, Disk, Kernel>>

\* Call, and the lv_is_cache check.
RemoveCall ==
    /\ pc = "idle"
    /\ ncalls < MaxCalls
    /\ ncalls' = ncalls + 1
    /\ \E cache_lv \in ArgLVs :
        /\ arg_lv' = cache_lv
        /\ rt' = IF op = "create" /\ ret = cache_lv /\ rt.name = cache_lv
                   THEN rt ELSE NoRoundTrip
        /\ IF ~lv_is_cache(lvs, cache_lv)
              THEN Return(FAIL)
              ELSE pc' = "r_policy_info" /\ ret' = "none"
    /\ op' = "remove"
    /\ arg_pool' = NULL
    /\ entry' = Snapshot
    /\ hist' = <<>>
    /\ segtype' = NULL
    /\ policy_name' = NULL
    /\ dirty_blocks' = Uninit
    /\ cache_pool_lv' = NULL
    /\ origin_lv' = NULL
    /\ UNCHANGED <<Memory, Disk, Kernel>>

\* RemovePolicyInfo polling right after the policy swap, without the commit cycle.
RemovePolicyInfo_NoCommitCycle ==
    /\ pc = "r_policy_info"
    /\ \/ \E p \in Policies :
            /\ policy_name' = p
            /\ Called("lv_cache_policy_info")
            /\ IF p # "cleaner"
                  THEN lvs' = set_policy(lvs, arg_lv, "cleaner")
                  ELSE lvs' = lvs
            /\ pc' = "r_block_info"
            /\ UNCHANGED ret
       \/ /\ Called(Failed("lv_cache_policy_info"))
          /\ Return(FAIL)
          /\ UNCHANGED <<lvs, policy_name>>
    /\ UNCHANGED <<Disk, Kernel, Args, rt, segtype, dirty_blocks,
                   cache_pool_lv, origin_lv>>

\* lv_cache_policy_info, and the swap to the cleaner policy.
RemovePolicyInfo ==
    /\ pc = "r_policy_info"
    /\ \/ \E p \in Policies :
            /\ policy_name' = p
            /\ Called("lv_cache_policy_info")
            /\ IF p # "cleaner"
                  THEN /\ lvs' = set_policy(lvs, arg_lv, "cleaner")
                       /\ pc' = "r_policy_write"
                  ELSE /\ lvs' = lvs
                       /\ pc' = "r_block_info"
            /\ UNCHANGED ret
       \/ /\ Called(Failed("lv_cache_policy_info"))
          /\ Return(FAIL)
          /\ UNCHANGED <<lvs, policy_name>>
    /\ UNCHANGED <<Disk, Kernel, Args, rt, segtype, dirty_blocks,
                   cache_pool_lv, origin_lv>>

\* vg_write of the policy change
RemovePolicyWrite ==
    /\ pc = "r_policy_write"
    /\ \/ /\ vg_write_ok
          /\ Called("vg_write")
          /\ pc' = "r_policy_suspend"
          /\ UNCHANGED ret
       \/ /\ Called(Failed("vg_write"))
          /\ Return(FAIL)
          /\ UNCHANGED Disk
    /\ UNCHANGED <<Memory, Kernel, Args, rt, Locals>>

\* suspend_lv of the policy change
RemovePolicySuspend ==
    /\ pc = "r_policy_suspend"
    /\ \/ /\ suspend_lv_ok(arg_lv)
          /\ Called("suspend_lv")
          /\ pc' = "r_policy_commit"
          /\ UNCHANGED ret
       \/ /\ Called(Failed("suspend_lv"))
          /\ Return(FAIL)
          /\ UNCHANGED Kernel
    /\ UNCHANGED <<Memory, Disk, Args, rt, Locals>>

\* vg_commit of the policy change
RemovePolicyCommit ==
    /\ pc = "r_policy_commit"
    /\ \/ /\ vg_commit_ok
          /\ Called("vg_commit")
          /\ pc' = "r_policy_resume"
          /\ UNCHANGED ret
       \/ /\ Called(Failed("vg_commit"))
          /\ Return(FAIL)
          /\ UNCHANGED Disk
    /\ UNCHANGED <<Memory, Kernel, Args, rt, Locals>>

\* resume_lv of the policy change
RemovePolicyResume ==
    /\ pc = "r_policy_resume"
    /\ \/ /\ resume_lv_ok(arg_lv)
          /\ Called("resume_lv")
          /\ pc' = "r_block_info"
          /\ UNCHANGED ret
       \/ /\ Called(Failed("resume_lv"))
          /\ Return(FAIL)
          /\ UNCHANGED Kernel
    /\ UNCHANGED <<Memory, Disk, Args, rt, Locals>>

\* One poll is recorded for a run of consecutive polls.
CalledPoll(e) ==
    hist' = IF hist # <<>> /\ hist[Len(hist)] = e THEN hist ELSE Append(hist, e)

\* RemoveBlockInfo with the pool unlink hoisted into the loop, ahead of the query.
RemoveBlockInfo_UnlinksBeforeQuery ==
    /\ pc = "r_block_info"
    /\ lvs' = IF first_seg(lvs, arg_lv).pool_lv # NULL
                 THEN detach_pool_lv(lvs, arg_lv) ELSE lvs
    /\ \/ \E d \in 0..MaxDirty :
            /\ dirty_blocks' = d
            /\ CalledPoll("lv_cache_block_info")
            /\ pc' = IF d # 0 THEN "r_sleep" ELSE "r_detach_pool"
            /\ UNCHANGED ret
       \/ /\ Called(Failed("lv_cache_block_info"))
          /\ Return(FAIL)
          /\ UNCHANGED dirty_blocks
    /\ UNCHANGED <<Disk, Kernel, Args, rt, segtype, policy_name,
                   cache_pool_lv, origin_lv>>

\* RemoveBlockInfo leaving the loop after one reading, whatever it is.
RemoveBlockInfo_ExitsOnAnyReading ==
    /\ pc = "r_block_info"
    /\ \/ \E d \in 0..MaxDirty :
            /\ dirty_blocks' = d
            /\ CalledPoll("lv_cache_block_info")
            /\ pc' = "r_detach_pool"
            /\ UNCHANGED ret
       \/ /\ Called(Failed("lv_cache_block_info"))
          /\ Return(FAIL)
          /\ UNCHANGED dirty_blocks
    /\ UNCHANGED <<Memory, Disk, Kernel, Args, rt, segtype, policy_name,
                   cache_pool_lv, origin_lv>>

\* do { lv_cache_block_info(...) ... } while (dirty_blocks): the query
RemoveBlockInfo ==
    /\ pc = "r_block_info"
    /\ \/ \E d \in 0..MaxDirty :
            /\ dirty_blocks' = d
            /\ CalledPoll("lv_cache_block_info")
            /\ pc' = IF d # 0 THEN "r_sleep" ELSE "r_detach_pool"
            /\ UNCHANGED ret
       \/ /\ Called(Failed("lv_cache_block_info"))
          /\ Return(FAIL)
          /\ UNCHANGED dirty_blocks
    /\ UNCHANGED <<Memory, Disk, Kernel, Args, rt, segtype, policy_name,
                   cache_pool_lv, origin_lv>>

\* The readings a draining cache can return: any count at the first query of
\* the loop, a count strictly below the previous reading afterwards.
DrainingReadings ==
    IF hist # <<>> /\ hist[Len(hist)] = "lv_cache_block_info"
       THEN 0..(dirty_blocks - 1)
       ELSE 0..MaxDirty

\* The query of the flush wait on a cache that drains under the cleaner policy.
\* Every query is recorded.
RemoveBlockInfoDraining ==
    /\ pc = "r_block_info"
    /\ \/ \E d \in DrainingReadings :
            /\ dirty_blocks' = d
            /\ Called("lv_cache_block_info")
            /\ pc' = IF d # 0 THEN "r_sleep" ELSE "r_detach_pool"
            /\ UNCHANGED ret
       \/ /\ Called(Failed("lv_cache_block_info"))
          /\ Return(FAIL)
          /\ UNCHANGED dirty_blocks
    /\ UNCHANGED <<Memory, Disk, Kernel, Args, rt, segtype, policy_name,
                   cache_pool_lv, origin_lv>>

\* RemoveSleep with the loop running once: do { ... } while (0).
RemoveSleep_LeavesLoop ==
    /\ pc = "r_sleep"
    /\ pc' = "r_detach_pool"
    /\ UNCHANGED <<Memory, Disk, Kernel, Args, rt, Locals, ret, hist>>

\* if (dirty_blocks) sleep(5);
RemoveSleep ==
    /\ pc = "r_sleep"
    /\ pc' = "r_block_info"
    /\ UNCHANGED <<Memory, Disk, Kernel, Args, rt, Locals, ret, hist>>

\* cache_pool_lv = first_seg(cache_lv)->pool_lv; detach_pool_lv(first_seg(cache_lv))
RemoveDetachPool ==
    /\ pc = "r_detach_pool"
    /\ cache_pool_lv' = first_seg(lvs, arg_lv).pool_lv
    /\ \/ /\ first_seg(lvs, arg_lv).pool_lv # NULL
          /\ lvs' = detach_pool_lv(lvs, arg_lv)
          /\ Called("detach_pool_lv")
          /\ pc' = "r_set_visible"
          /\ UNCHANGED ret
       \/ /\ Called(Failed("detach_pool_lv"))
          /\ Return(FAIL)
          /\ UNCHANGED lvs
    /\ UNCHANGED <<Disk, Kernel, Args, rt, segtype, policy_name, dirty_blocks,
                   origin_lv>>

\* origin_lv = seg_lv(first_seg(cache_lv), 0); lv_set_visible(origin_lv)
RemoveSetVisible ==
    /\ pc = "r_set_visible"
    /\ origin_lv' = seg_lv0(lvs, arg_lv)
    /\ lvs' = lv_set_visible(lvs, seg_lv0(lvs, arg_lv))
    /\ Called("lv_set_visible")
    /\ pc' = "r_remove_seg"
    /\ UNCHANGED <<Disk, Kernel, Args, rt, segtype, policy_name, dirty_blocks,
                   cache_pool_lv, ret>>

\* remove_seg_from_segs_using_this_lv(origin_lv, first_seg(cache_lv))
RemoveSegUsing ==
    /\ pc = "r_remove_seg"
    /\ \/ /\ arg_lv \in lvs[origin_lv].segs_using_this_lv
          /\ lvs' = remove_seg_from_segs_using_this_lv(lvs, origin_lv, arg_lv)
          /\ Called("remove_seg_from_segs_using_this_lv")
          /\ pc' = "r_move_segments"
          /\ UNCHANGED ret
       \/ /\ Called(Failed("remove_seg_from_segs_using_this_lv"))
          /\ Return(FAIL)
          /\ UNCHANGED lvs
    /\ UNCHANGED <<Disk, Kernel, Args, rt, Locals>>

\* RemoveMoveSegments without cache_lv->status &= ~CACHE.
RemoveMoveSegments_KeepsCacheFlag ==
    /\ pc = "r_move_segments"
    /\ \/ /\ lvs' = move_lv_segments(lvs, arg_lv, origin_lv)
          /\ Called("move_lv_segments")
          /\ pc' = "r_segtype"
          /\ UNCHANGED ret
       \/ /\ Called(Failed("move_lv_segments"))
          /\ Return(FAIL)
          /\ UNCHANGED lvs
    /\ UNCHANGED <<Disk, Kernel, Args, rt, Locals>>

\* move_lv_segments(cache_lv, origin_lv, 0, 0); cache_lv->status &= ~CACHE
RemoveMoveSegments ==
    /\ pc = "r_move_segments"
    /\ \/ /\ lvs' = [move_lv_segments(lvs, arg_lv, origin_lv)
                        EXCEPT ![arg_lv].status = @ \ {"CACHE"}]
          /\ Called("move_lv_segments")
          /\ pc' = "r_segtype"
          /\ UNCHANGED ret
       \/ /\ Called(Failed("move_lv_segments"))
          /\ Return(FAIL)
          /\ UNCHANGED lvs
    /\ UNCHANGED <<Disk, Kernel, Args, rt, Locals>>

\* segtype = get_segtype_from_string(cmd, "error"): the result is not checked
RemoveSegtype ==
    /\ pc = "r_segtype"
    /\ \/ segtype' = "error" /\ Called("get_segtype")
       \/ segtype' = NULL /\ Called(Failed("get_segtype"))
    /\ pc' = "r_add_virtual"
    /\ UNCHANGED <<Memory, Disk, Kernel, Args, rt, policy_name, dirty_blocks,
                   cache_pool_lv, origin_lv, ret>>

\* RemoveAddVirtual adding the placeholder to cache_lv instead of origin_lv.
RemoveAddVirtual_OnCacheLv ==
    /\ pc = "r_add_virtual"
    /\ \/ /\ segtype # NULL
          /\ lvs' = lv_add_virtual_segment(lvs, arg_lv,
                                           lvs[arg_lv].le_count, segtype)
          /\ Called("lv_add_virtual_segment")
          /\ pc' = "r_write"
          /\ UNCHANGED ret
       \/ /\ Called(Failed("lv_add_virtual_segment"))
          /\ Return(FAIL)
          /\ UNCHANGED lvs
    /\ UNCHANGED <<Disk, Kernel, Args, rt, Locals>>

\* lv_add_virtual_segment(origin_lv, 0, cache_lv->le_count, segtype, NULL)
\* segtype is NULL here when the lookup of "error" failed (l.182 does not
\* check it).  A segment cannot be allocated without a segment type: with
\* segtype NULL the call fails.
RemoveAddVirtual ==
    /\ pc = "r_add_virtual"
    /\ \/ /\ segtype # NULL
          /\ lvs' = lv_add_virtual_segment(lvs, origin_lv,
                                           lvs[arg_lv].le_count, segtype)
          /\ Called("lv_add_virtual_segment")
          /\ pc' = "r_write"
          /\ UNCHANGED ret
       \/ /\ Called(Failed("lv_add_virtual_segment"))
          /\ Return(FAIL)
          /\ UNCHANGED lvs
    /\ UNCHANGED <<Disk, Kernel, Args, rt, Locals>>

\* vg_write of the detached graph
RemoveWrite ==
    /\ pc = "r_write"
    /\ \/ /\ vg_write_ok
          /\ Called("vg_write")
          /\ pc' = "r_suspend"
          /\ UNCHANGED ret
       \/ /\ Called(Failed("vg_write"))
          /\ Return(FAIL)
          /\ UNCHANGED Disk
    /\ UNCHANGED <<Memory, Kernel, Args, rt, Locals>>

\* RemoveSuspend going on to vg_commit when suspend_lv failed.
RemoveSuspend_Unchecked ==
    /\ pc = "r_suspend"
    /\ \/ /\ suspend_lv_ok(arg_lv)
          /\ Called("suspend_lv")
          /\ pc' = "r_commit"
          /\ UNCHANGED ret
       \/ /\ Called(Failed("suspend_lv"))
          /\ pc' = "r_commit"
          /\ UNCHANGED <<Kernel, ret>>
    /\ UNCHANGED <<Memory, Disk, Args, rt, Locals>>

\* suspend_lv of the cache LV and all of its components
RemoveSuspend ==
    /\ pc = "r_suspend"
    /\ \/ /\ suspend_lv_ok(arg_lv)
          /\ Called("suspend_lv")
          /\ pc' = "r_commit"
          /\ UNCHANGED ret
       \/ /\ Called(Failed("suspend_lv"))
          /\ Return(FAIL)
          /\ UNCHANGED Kernel
    /\ UNCHANGED <<Memory, Disk, Args, rt, Locals>>

\* RemoveCommit resuming the stack when vg_commit failed.
RemoveCommit_AutoResume ==
    /\ pc = "r_commit"
    /\ \/ /\ vg_commit_ok
          /\ Called("vg_commit")
          /\ pc' = "r_resume"
          /\ UNCHANGED <<ret, Kernel>>
       \/ /\ Called(Failed("vg_commit"))
          /\ resume_lv_ok(arg_lv)
          /\ Return(FAIL)
          /\ UNCHANGED Disk
    /\ UNCHANGED <<Memory, Args, rt, Locals>>

\* vg_commit of the detached graph
RemoveCommit ==
    /\ pc = "r_commit"
    /\ \/ /\ vg_commit_ok
          /\ Called("vg_commit")
          /\ pc' = "r_resume"
          /\ UNCHANGED ret
       \/ /\ Called(Failed("vg_commit"))
          /\ Return(FAIL)
          /\ UNCHANGED Disk
    /\ UNCHANGED <<Memory, Kernel, Args, rt, Locals>>

\* RemoveResume putting the old metadata back when resume_lv failed.
RemoveResume_Rollback ==
    /\ pc = "r_resume"
    /\ \/ /\ resume_lv_ok(arg_lv)
          /\ Called("resume_lv")
          /\ pc' = "r_resume_pool"
          /\ UNCHANGED <<ret, Disk>>
       \/ /\ Called(Failed("resume_lv"))
          /\ committed' = entry.committed
          /\ Return(FAIL)
          /\ UNCHANGED <<Kernel, precommitted, staged>>
    /\ UNCHANGED <<Memory, Args, rt, Locals>>

\* resume_lv of the (former) cache LV
RemoveResume ==
    /\ pc = "r_resume"
    /\ \/ /\ resume_lv_ok(arg_lv)
          /\ Called("resume_lv")
          /\ pc' = "r_resume_pool"
          /\ UNCHANGED ret
       \/ /\ Called(Failed("resume_lv"))
          /\ Return(FAIL)
          /\ UNCHANGED Kernel
    /\ UNCHANGED <<Memory, Disk, Args, rt, Locals>>

\* resume_lv of the cache pool, separately
RemoveResumePool ==
    /\ pc = "r_resume_pool"
    /\ \/ /\ resume_lv_ok(cache_pool_lv)
          /\ Called("resume_lv(pool)")
          /\ pc' = "r_activate"
          /\ UNCHANGED ret
       \/ /\ Called(Failed("resume_lv(pool)"))
          /\ Return(FAIL)
          /\ UNCHANGED Kernel
    /\ UNCHANGED <<Memory, Disk, Args, rt, Locals>>

\* activate_lv(cmd, origin_lv)
RemoveActivate ==
    /\ pc = "r_activate"
    /\ \/ /\ active' = active \cup {origin_lv}
          /\ Called("activate_lv")
          /\ pc' = "r_deactivate"
          /\ UNCHANGED ret
       \/ /\ Called(Failed("activate_lv"))
          /\ Return(FAIL)
          /\ UNCHANGED active
    /\ UNCHANGED <<Memory, Disk, suspended, Args, rt, Locals>>

\* RemoveDeactivate going on to lv_remove when deactivate_lv failed.
RemoveDeactivate_Unchecked ==
    /\ pc = "r_deactivate"
    /\ \/ /\ active' = active \ {origin_lv}
          /\ Called("deactivate_lv")
       \/ /\ Called(Failed("deactivate_lv"))
          /\ UNCHANGED active
    /\ pc' = "r_lv_remove"
    /\ UNCHANGED <<Memory, Disk, suspended, Args, rt, Locals, ret>>

\* deactivate_lv(cmd, origin_lv)
RemoveDeactivate ==
    /\ pc = "r_deactivate"
    /\ \/ /\ active' = active \ {origin_lv}
          /\ Called("deactivate_lv")
          /\ pc' = "r_lv_remove"
          /\ UNCHANGED ret
       \/ /\ Called(Failed("deactivate_lv"))
          /\ Return(FAIL)
          /\ UNCHANGED active
    /\ UNCHANGED <<Memory, Disk, suspended, Args, rt, Locals>>

\* RemoveLvRemove writing and committing the graph once the hidden LV is gone.
RemoveLvRemove_Commits ==
    /\ pc = "r_lv_remove"
    /\ \/ /\ lvs' = lv_remove(lvs, origin_lv)
          /\ precommitted' = lvs'
          /\ committed' = lvs'
          /\ Called("lv_remove")
          /\ Return(OK)
          /\ UNCHANGED staged
       \/ /\ Called(Failed("lv_remove"))
          /\ Return(FAIL)
          /\ UNCHANGED <<lvs, Disk>>
    /\ UNCHANGED <<Kernel, Args, rt, Locals>>

\* lv_remove(origin_lv); return 1
RemoveLvRemove ==
    /\ pc = "r_lv_remove"
    /\ \/ /\ lvs' = lv_remove(lvs, origin_lv)
          /\ Called("lv_remove")
          /\ Return(OK)
       \/ /\ Called(Failed("lv_remove"))
          /\ Return(FAIL)
          /\ UNCHANGED lvs
    /\ UNCHANGED <<Disk, Kernel, Args, rt, Locals>>

(***************************************************************************)
(* Specification                                                           *)
(***************************************************************************)
Next ==
    \/ CreateCall
    \/ CreateSegtype
    \/ CreateInsertLayer
    \/ CreateAttachPool
    \/ RemoveCall
    \/ RemovePolicyInfo
    \/ RemovePolicyWrite
    \/ RemovePolicySuspend
    \/ RemovePolicyCommit
    \/ RemovePolicyResume
    \/ RemoveBlockInfo
    \/ RemoveSleep
    \/ RemoveDetachPool
    \/ RemoveSetVisible
    \/ RemoveSegUsing
    \/ RemoveMoveSegments
    \/ RemoveSegtype
    \/ RemoveAddVirtual
    \/ RemoveWrite
    \/ RemoveSuspend
    \/ RemoveCommit
    \/ RemoveResume
    \/ RemoveResumePool
    \/ RemoveActivate
    \/ RemoveDeactivate
    \/ RemoveLvRemove

Spec == Init /\ [][Next]_vars

\* lv_cache_create and lv_cache_remove over caches that drain while polled.
NextDrain ==
    \/ CreateCall
    \/ CreateSegtype
    \/ CreateInsertLayer
    \/ CreateAttachPool
    \/ RemoveCall
    \/ RemovePolicyInfo
    \/ RemovePolicyWrite
    \/ RemovePolicySuspend
    \/ RemovePolicyCommit
    \/ RemovePolicyResume
    \/ RemoveBlockInfoDraining
    \/ RemoveSleep
    \/ RemoveDetachPool
    \/ RemoveSetVisible
    \/ RemoveSegUsing
    \/ RemoveMoveSegments
    \/ RemoveSegtype
    \/ RemoveAddVirtual
    \/ RemoveWrite
    \/ RemoveSuspend
    \/ RemoveCommit
    \/ RemoveResume
    \/ RemoveResumePool
    \/ RemoveActivate
    \/ RemoveDeactivate
    \/ RemoveLvRemove

\* The loop of l.151-159 is sequential code: a query that is due is made, and
\* a sleep ends.
SpecDrain ==
    /\ Init
    /\ [][NextDrain]_vars
    /\ WF_vars(RemoveBlockInfoDraining)
    /\ WF_vars(RemoveSleep)

(***************************************************************************)
(* Vocabulary of the properties                                            *)
(***************************************************************************)
Last(h) == h[Len(h)]

Events == {hist[i] : i \in DOMAIN hist}

Either(e) == {e, Failed(e)}

Count(e) == Cardinality({i \in DOMAIN hist : hist[i] = e})

\* The pool the cache LV referenced when lv_cache_remove was entered.
EntryPool == first_seg(entry.lvs, arg_lv).pool_lv

\* The hidden origin below the cache LV when lv_cache_remove was entered.
EntryOrigin == seg_lv0(entry.lvs, arg_lv)

\* LVs of graph g with a segment that references pool.
PoolUsers(g, pool) ==
    {n \in DOMAIN g : \E i \in DOMAIN g[n].segments : g[n].segments[i].pool_lv = pool}

\* lv_cache_remove has broken the link between the cache LV and its pool.
Unlinked ==
    /\ op = "remove"
    /\ lv_is_cache(entry.lvs, arg_lv)
    /\ EntryPool # NULL
    /\ arg_lv \notin PoolUsers(lvs, EntryPool)

(***************************************************************************)
(* C1: the pool is unlinked (detach_pool_lv) only when the most recent     *)
(* dirty-block query returned 0, that query being the step right before    *)
(* the unlink; no unlink follows a nonzero reading or no reading.          *)
(***************************************************************************)
C1_UnlinkOnlyAfterZeroReading ==
    /\ pc = "r_detach_pool" =>
          /\ dirty_blocks = 0
          /\ hist # <<>>
          /\ Last(hist) = "lv_cache_block_info"
    /\ \A i \in DOMAIN hist :
          hist[i] \in Either("detach_pool_lv") =>
              /\ i > 1
              /\ hist[i - 1] = "lv_cache_block_info"
              /\ dirty_blocks = 0
    /\ Unlinked => "detach_pool_lv" \in Events /\ dirty_blocks = 0

C1_Witness ==
    /\ pc = "r_set_visible"
    /\ Unlinked
    /\ Last(hist) = "detach_pool_lv"
    /\ dirty_blocks = 0

\* Event e of the history is followed by a call of f, made or about to be made.
FollowedBy(i, f, at) ==
    IF i < Len(hist) THEN hist[i + 1] \in Either(f) ELSE pc = at

\* The position at which hist[i], a step of a commit cycle, was taken.
InPolicyCycle(i) == \A j \in 1..i : hist[j] # "lv_cache_block_info"

(***************************************************************************)
(* C2: each commit cycle of lv_cache_remove runs vg_write, suspend_lv,     *)
(* vg_commit, resume_lv in that order, none skipped, and vg_commit is      *)
(* never called while the cache LV is not suspended.                       *)
(***************************************************************************)
C2_CommitCycleOrder ==
    /\ pc \in {"r_policy_commit", "r_commit"} => arg_lv \in suspended
    /\ \A i \in DOMAIN hist :
          /\ hist[i] \in Either("vg_write") =>
                /\ i > 1
                /\ hist[i - 1] \in {"lv_cache_policy_info", "lv_add_virtual_segment"}
          /\ hist[i] \in Either("suspend_lv") => i > 1 /\ hist[i - 1] = "vg_write"
          /\ hist[i] \in Either("vg_commit") => i > 1 /\ hist[i - 1] = "suspend_lv"
          /\ hist[i] \in Either("resume_lv") => i > 1 /\ hist[i - 1] = "vg_commit"
          /\ hist[i] = "vg_write" =>
                FollowedBy(i, "suspend_lv",
                           IF InPolicyCycle(i) THEN "r_policy_suspend" ELSE "r_suspend")
          /\ hist[i] = "suspend_lv" =>
                FollowedBy(i, "vg_commit",
                           IF InPolicyCycle(i) THEN "r_policy_commit" ELSE "r_commit")
          /\ hist[i] = "vg_commit" =>
                FollowedBy(i, "resume_lv",
                           IF InPolicyCycle(i) THEN "r_policy_resume" ELSE "r_resume")

C2_Witness ==
    /\ pc = "r_resume_pool"
    /\ Count("vg_write") = 2
    /\ Count("suspend_lv") = 2
    /\ Count("vg_commit") = 2
    /\ Count("resume_lv") = 2

(***************************************************************************)
(* Shapes of a volume graph around one cache LV                            *)
(***************************************************************************)
\* g describes the complete cached graph: c is CACHE-tagged, its single
\* segment is a cache segment on hidden origin corig referencing pool, and
\* corig holds the data segments segs.
CachedShape(g, c, pool, corig, segs) ==
    /\ {c, pool, corig} \subseteq DOMAIN g
    /\ lv_is_cache(g, c)
    /\ Len(g[c].segments) = 1
    /\ first_seg(g, c).segtype = "cache"
    /\ first_seg(g, c).pool_lv = pool
    /\ first_seg(g, c).lv0 = corig
    /\ c \in g[pool].segs_using_this_lv
    /\ c \in g[corig].segs_using_this_lv
    /\ "VISIBLE_LV" \notin g[corig].status
    /\ g[corig].segments = segs

\* g describes the complete detached graph: c holds the data segments segs
\* and is not CACHE-tagged, nothing of c references pool, and corig holds
\* one placeholder segment.
DetachedShape(g, c, pool, corig, segs) ==
    /\ {c, pool, corig} \subseteq DOMAIN g
    /\ ~lv_is_cache(g, c)
    /\ g[c].segments = segs
    /\ c \notin PoolUsers(g, pool)
    /\ c \notin g[pool].segs_using_this_lv
    /\ c \notin g[corig].segs_using_this_lv
    /\ Len(g[corig].segments) = 1
    /\ first_seg(g, corig).segtype = "error"
    /\ first_seg(g, corig).len = g[c].le_count

EntrySegs == entry.lvs[EntryOrigin].segments

\* lv_cache_remove was entered on a complete cached graph.
EntryCached ==
    /\ op = "remove"
    /\ lv_is_cache(entry.lvs, arg_lv)
    /\ EntryPool # NULL
    /\ CachedShape(entry.lvs, arg_lv, EntryPool, EntryOrigin, EntrySegs)

\* ... that was also the authoritative metadata.
EntryCachedAndPersisted == EntryCached /\ entry.committed = entry.lvs

(***************************************************************************)
(* C3: wherever lv_cache_remove is interrupted, the authoritative metadata *)
(* describes the complete cached graph or the complete detached graph,     *)
(* never a hybrid of the two.  (Entered on a complete cached graph that    *)
(* the caller has not persisted yet, it leaves the metadata it found until *)
(* its first commit.)                                                      *)
(***************************************************************************)
C3_CommittedOldOrNew ==
    EntryCached =>
        \/ committed = entry.committed
        \/ CachedShape(committed, arg_lv, EntryPool, EntryOrigin, EntrySegs)
        \/ DetachedShape(committed, arg_lv, EntryPool, EntryOrigin, EntrySegs)

C3_Witness ==
    /\ EntryCachedAndPersisted
    /\ pc = "r_resume"
    /\ DetachedShape(committed, arg_lv, EntryPool, EntryOrigin, EntrySegs)
    /\ ~CachedShape(committed, arg_lv, EntryPool, EntryOrigin, EntrySegs)

RoundTripDone ==
    /\ pc = "idle"
    /\ op = "remove"
    /\ ret = OK
    /\ rt.valid

(***************************************************************************)
(* C4: a successful lv_cache_create followed immediately by a successful   *)
(* lv_cache_remove leaves an LV of the same name with the extent count and *)
(* the data segments, in order, that the origin had before the attach.     *)
(***************************************************************************)
C4_RoundTrip ==
    RoundTripDone =>
        /\ rt.name = arg_lv
        /\ rt.name \in DOMAIN lvs
        /\ lvs[rt.name].le_count = rt.le_count
        /\ lvs[rt.name].segments = rt.segments
        /\ ~lv_is_cache(lvs, rt.name)

C4_Witness ==
    /\ RoundTripDone
    /\ Len(rt.segments) = 2
    /\ dirty_blocks = 0

\* The vg_commit of the detach cycle has succeeded in the running / last call.
DetachCommitted ==
    /\ op = "remove"
    /\ \E i \in DOMAIN hist :
          /\ hist[i] = "vg_commit"
          /\ \E j \in 1..i : hist[j] = "lv_add_virtual_segment"

LateFailures ==
    {Failed("resume_lv"), Failed("resume_lv(pool)"), Failed("activate_lv"),
     Failed("deactivate_lv"), Failed("lv_remove")}

(***************************************************************************)
(* C5: once the detach commit has succeeded, every later failure of the    *)
(* same call (resume of the LV, resume of the pool, activate, deactivate,  *)
(* lv_remove) returns an error and the authoritative metadata still        *)
(* describes the detached graph: nothing reverts or rewrites it.           *)
(***************************************************************************)
C5_DetachedStateSurvivesLateFailure ==
    DetachCommitted =>
        /\ DetachedShape(committed, arg_lv, EntryPool, EntryOrigin, EntrySegs)
        /\ ~staged
        /\ Last(hist) \in LateFailures => pc = "idle" /\ ret = FAIL

C5_Witness ==
    /\ DetachCommitted
    /\ pc = "idle"
    /\ Last(hist) = Failed("resume_lv")
    /\ ret = FAIL

\* The metadata that was authoritative when the cycle of the last vg_commit began.
CommittedBeforeCycle ==
    IF "vg_commit" \in Events THEN set_policy(entry.lvs, arg_lv, "cleaner")
    ELSE entry.committed

(***************************************************************************)
(* C6: when vg_commit fails after suspend_lv succeeded, in either cycle,   *)
(* the call returns an error with no resume, activate, deactivate or       *)
(* lv_remove: the stack stays suspended and the authoritative metadata is  *)
(* what it was before the cycle.                                           *)
(***************************************************************************)
C6_CommitFailureLeavesSuspended ==
    \A i \in DOMAIN hist :
        hist[i] = Failed("vg_commit") =>
            /\ i = Len(hist)
            /\ i > 1
            /\ hist[i - 1] = "suspend_lv"
            /\ pc = "idle"
            /\ ret = FAIL
            /\ Stack(committed, arg_lv) \subseteq suspended
            /\ committed = CommittedBeforeCycle
            /\ active = entry.active
            /\ EntryOrigin \in DOMAIN lvs

C6_Witness ==
    /\ pc = "idle"
    /\ hist # <<>>
    /\ Last(hist) = Failed("vg_commit")
    /\ "lv_add_virtual_segment" \in Events
    /\ EntryPool \in suspended

NothingDone ==
    /\ pc = "idle"
    /\ ret = FAIL
    /\ hist = <<>>
    /\ Snapshot = entry

(***************************************************************************)
(* C7: lv_cache_create on an origin that is already of cache type returns  *)
(* failure and leaves the volume graph as it was.                          *)
(***************************************************************************)
C7_AttachOnCachedOriginFails ==
    (op = "create" /\ lv_is_cache_type(entry.lvs, arg_lv)) => NothingDone

C7_Witness ==
    /\ op = "create"
    /\ lv_is_cache(entry.lvs, arg_lv)
    /\ lv_is_cache_pool(entry.lvs, arg_pool)
    /\ NothingDone

(***************************************************************************)
(* C8: lv_cache_create with a pool argument that is not a cache pool       *)
(* returns failure and leaves the volume graph as it was.                  *)
(***************************************************************************)
C8_AttachOnNonPoolFails ==
    (op = "create" /\ ~lv_is_cache_pool(entry.lvs, arg_pool)) => NothingDone

C8_Witness ==
    /\ op = "create"
    /\ ~lv_is_cache_pool(entry.lvs, arg_pool)
    /\ ~lv_is_cache_type(entry.lvs, arg_lv)
    /\ NothingDone

(***************************************************************************)
(* C9: lv_cache_remove on an LV that is not CACHE-tagged returns failure   *)
(* at once: no query, no change of the graph in memory, no vg_write,       *)
(* suspend, vg_commit, resume, activate, deactivate or lv_remove.          *)
(***************************************************************************)
C9_DetachOnNonCacheFails ==
    (op = "remove" /\ ~lv_is_cache(entry.lvs, arg_lv)) => NothingDone

C9_Witness ==
    /\ op = "remove"
    /\ ~lv_is_cache(entry.lvs, arg_lv)
    /\ NothingDone

AttachSucceeded ==
    /\ pc = "idle"
    /\ op = "create"
    /\ ret # FAIL

\* All of the postcondition but the count of the pool's references.
AttachedShape ==
    /\ ret = arg_lv
    /\ CachedShape(lvs, arg_lv, arg_pool, layer_name(arg_lv, "_corig"),
                   entry.lvs[arg_lv].segments)
    /\ lvs[arg_lv].le_count = entry.lvs[arg_lv].le_count

PoolReferencedOnce ==
    /\ PoolUsers(lvs, arg_pool) = {arg_lv}
    /\ lvs[arg_pool].segs_using_this_lv = {arg_lv}

(***************************************************************************)
(* C10: on every successful lv_cache_create the returned LV is the one     *)
(* that had the origin's name, it is CACHE-tagged, its single segment is   *)
(* a cache segment referencing the given pool, its sub-volume 0 is the     *)
(* new hidden LV <origin>_corig holding the origin's former segments, and  *)
(* the pool is referenced exactly once.                                    *)
(***************************************************************************)
C10_AttachPostcondition ==
    AttachSucceeded => AttachedShape /\ PoolReferencedOnce

DetachSucceeded ==
    /\ pc = "idle"
    /\ op = "remove"
    /\ ret = OK

\* All of the postcondition of a successful detach but the pool being unreferenced.
PromotedShape ==
    /\ arg_lv \in DOMAIN lvs
    /\ ~lv_is_cache(lvs, arg_lv)
    /\ lvs[arg_lv].segments = EntrySegs
    /\ lvs[arg_lv].le_count = entry.lvs[arg_lv].le_count
    /\ EntryPool \in DOMAIN lvs
    /\ lvs[EntryPool] = [entry.lvs[EntryPool] EXCEPT
                            !.segs_using_this_lv = @ \ {arg_lv}]
    /\ EntryOrigin \notin DOMAIN lvs

PoolUnreferenced ==
    /\ PoolUsers(lvs, EntryPool) = {}
    /\ lvs[EntryPool].segs_using_this_lv = {}

(***************************************************************************)
(* C11: on every successful lv_cache_remove of a cached LV C built from    *)
(* pool P, C is not CACHE-tagged and owns the original data segments with  *)
(* the original extent count, P is still present and unreferenced, and the *)
(* hidden LV C_corig no longer exists.                                     *)
(***************************************************************************)
C11_DetachPostcondition ==
    DetachSucceeded => PromotedShape /\ PoolUnreferenced

\* Every CACHE-tagged LV of g has a first segment of type "cache" with a pool.
WellTagged(g) ==
    \A n \in DOMAIN g :
        lv_is_cache(g, n) =>
            /\ Len(g[n].segments) >= 1
            /\ first_seg(g, n).segtype = "cache"
            /\ first_seg(g, n).pool_lv # NULL

\* The last call failed between the first and the last write of its graph
\* surgery: attach after the layer insertion, detach between the pool unlink
\* and the clearing of the CACHE bit.
FailedInsideSurgery ==
    /\ hist # <<>>
    /\ Last(hist) \in {Failed("attach_pool_lv"),
                       Failed("remove_seg_from_segs_using_this_lv"),
                       Failed("move_lv_segments")}

\* C12 as stated: between calls, whatever failed before, and in every
\* committed graph, each CACHE-tagged LV has a cache segment with a pool.
C12_Original ==
    /\ pc = "idle" => WellTagged(lvs)
    /\ WellTagged(committed)

(***************************************************************************)
(* C12 (amended): a call entered on a graph in which every CACHE-tagged LV *)
(* has a first segment of type "cache" with a pool leaves such a graph     *)
(* when it returns, unless it failed inside its graph surgery (there is no *)
(* rollback), and whatever it commits is such a graph too.                 *)
(***************************************************************************)
C12_TaggedImpliesCacheSegment ==
    WellTagged(entry.lvs) =>
        /\ (pc = "idle" /\ ~FailedInsideSurgery) => WellTagged(lvs)
        /\ WellTagged(entry.committed) => WellTagged(committed)

C12_Witness ==
    /\ pc = "idle"
    /\ op = "remove"
    /\ ret = FAIL
    /\ hist # <<>>
    /\ Last(hist) = Failed("resume_lv")
    /\ WellTagged(entry.lvs)
    /\ lv_is_cache(lvs, arg_lv)
    /\ committed # entry.committed

(***************************************************************************)
(* C13: between calls, whatever attaches and detaches were made (an attach *)
(* on a pool another cache LV already uses included), every cache pool is  *)
(* referenced by at most one cache segment, and it is marked in use        *)
(* (segs_using_this_lv non-empty) exactly when a cache segment references  *)
(* it.                                                                     *)
(***************************************************************************)
C13_PoolOneToOne ==
    pc = "idle" =>
        \A p \in DOMAIN lvs :
            lv_is_cache_pool(lvs, p) =>
                /\ Cardinality(PoolUsers(lvs, p)) <= 1
                /\ lvs[p].segs_using_this_lv # {} <=> PoolUsers(lvs, p) # {}

\* The flush wait has been reached: its first query is due or was made.
ReachedFlushWait ==
    /\ op = "remove"
    /\ \/ pc \in {"r_block_info", "r_sleep"}
       \/ Events \cap Either("lv_cache_block_info") # {}

\* The primitives called before the first dirty-block query.
BeforeFirstQuery ==
    LET polls == {i \in DOMAIN hist : hist[i] \in Either("lv_cache_block_info")}
        n == IF polls = {} THEN Len(hist)
             ELSE (CHOOSE i \in polls : \A j \in polls : i <= j) - 1
    IN  SubSeq(hist, 1, n)

\* lv_cache_remove is between the policy query and the pool unlink.
InFlushPhase ==
    pc \in {"r_policy_write", "r_policy_suspend", "r_policy_commit",
            "r_policy_resume", "r_block_info", "r_sleep", "r_detach_pool"}

(***************************************************************************)
(* C14: in lv_cache_remove, if the queried policy name is not "cleaner",   *)
(* the cache segment's policy is set to "cleaner" with no arguments and    *)
(* exactly one full cycle vg_write, suspend_lv, vg_commit, resume_lv       *)
(* completes before the first dirty-block query, which then sees the       *)
(* change committed; if the name is "cleaner" already, nothing is changed  *)
(* and none of the four is called before the first query.                  *)
(***************************************************************************)
C14_PolicySwapBeforeFirstQuery ==
    /\ (ReachedFlushWait /\ policy_name # "cleaner") =>
          BeforeFirstQuery = <<"lv_cache_policy_info", "vg_write",
                               "suspend_lv", "vg_commit", "resume_lv">>
    /\ (ReachedFlushWait /\ policy_name = "cleaner") =>
          BeforeFirstQuery = <<"lv_cache_policy_info">>
    /\ (InFlushPhase /\ policy_name # "cleaner") =>
          /\ lvs = set_policy(entry.lvs, arg_lv, "cleaner")
          /\ first_seg(lvs, arg_lv).policy_name = "cleaner"
          /\ first_seg(lvs, arg_lv).policy_argc = 0
          /\ pc \in {"r_block_info", "r_sleep", "r_detach_pool"} =>
                /\ committed = lvs
                /\ ~staged
                /\ arg_lv \notin suspended
    /\ (InFlushPhase /\ policy_name = "cleaner") =>
          /\ lvs = entry.lvs
          /\ <<committed, precommitted, staged>> =
                <<entry.committed, entry.precommitted, entry.staged>>
          /\ <<suspended, active>> = <<entry.suspended, entry.active>>

C14_Witness ==
    /\ pc = "r_detach_pool"
    /\ policy_name = "mq"
    /\ hist = <<"lv_cache_policy_info", "vg_write", "suspend_lv",
                "vg_commit", "resume_lv", "lv_cache_block_info">>
    /\ first_seg(entry.lvs, arg_lv).policy_argc = 1
    /\ first_seg(lvs, arg_lv).policy_argc = 0

\* lv_cache_remove returned failure from its flush phase (l.124-159).
FailedInFlushPhase ==
    /\ pc = "idle"
    /\ op = "remove"
    /\ ret = FAIL
    /\ hist # <<>>
    /\ \/ Last(hist) \in {Failed("lv_cache_policy_info"),
                          Failed("lv_cache_block_info")}
       \/ /\ Last(hist) \in {Failed("vg_write"), Failed("suspend_lv"),
                             Failed("vg_commit"), Failed("resume_lv")}
          /\ InPolicyCycle(Len(hist))

\* The policy fields of a segment, which the swap to "cleaner" rewrites, blanked.
SansPolicy(s) == [s EXCEPT !.policy_name = "", !.policy_argc = 0]

\* Graph g and the entry graph hold the same LVs with the same segment lists,
\* the cache segment's policy fields left aside.
SameGraphAsEntry(g) ==
    /\ DOMAIN g = DOMAIN entry.lvs
    /\ \A n \in DOMAIN g :
          /\ g[n].status = entry.lvs[n].status
          /\ g[n].le_count = entry.lvs[n].le_count
          /\ g[n].segs_using_this_lv = entry.lvs[n].segs_using_this_lv
          /\ Len(g[n].segments) = Len(entry.lvs[n].segments)
          /\ \A i \in DOMAIN g[n].segments :
                SansPolicy(g[n].segments[i]) = SansPolicy(entry.lvs[n].segments[i])

\* C15 as stated: after a failure in the flush phase every LV has exactly the
\* segment list it had at entry, no field of any segment changed.
C15_Original ==
    FailedInFlushPhase =>
        /\ DOMAIN lvs = DOMAIN entry.lvs
        /\ \A n \in DOMAIN lvs : lvs[n].segments = entry.lvs[n].segments

(***************************************************************************)
(* C15 (amended): when lv_cache_remove fails in its flush phase (policy    *)
(* query; vg_write, suspend_lv, vg_commit or resume_lv of the policy       *)
(* change; a dirty-block query), no graph surgery has been done: the cache *)
(* segment still references its pool, the hidden origin is still hidden    *)
(* and still sub-LV 0, the LV is still CACHE-tagged, and every LV has the  *)
(* segment list it had at entry but for the cache segment's policy, which  *)
(* is "cleaner" with no arguments if the swap was made; lv_cache_remove    *)
(* accepts the LV again.                                                   *)
(***************************************************************************)
C15_FlushFailureLeavesGraph ==
    FailedInFlushPhase =>
        /\ SameGraphAsEntry(lvs)
        /\ lvs \in {entry.lvs, set_policy(entry.lvs, arg_lv, "cleaner")}
        /\ first_seg(lvs, arg_lv).pool_lv = EntryPool
        /\ EntryPool # NULL => arg_lv \in lvs[EntryPool].segs_using_this_lv
        /\ seg_lv0(lvs, arg_lv) = EntryOrigin
        /\ "VISIBLE_LV" \notin entry.lvs[EntryOrigin].status =>
              "VISIBLE_LV" \notin lvs[EntryOrigin].status
        /\ "CACHE" \in lvs[arg_lv].status
        /\ lv_is_cache(lvs, arg_lv)

C15_Witness ==
    /\ FailedInFlushPhase
    /\ Last(hist) = Failed("lv_cache_block_info")
    /\ policy_name = "mq"
    /\ EntryPool # NULL
    /\ "VISIBLE_LV" \notin lvs[EntryOrigin].status
    /\ Len(hist) >= 2
    /\ hist[Len(hist) - 1] = "lv_cache_block_info"
    /\ dirty_blocks \in 1..MaxDirty
    /\ lvs = set_policy(entry.lvs, arg_lv, "cleaner")
    /\ lvs # entry.lvs

(***************************************************************************)
(* C16: when the lookup of the "error" segment type fails in               *)
(* lv_cache_remove, the call returns failure at that step: the lookup is   *)
(* the last primitive called, no placeholder segment is put on the hidden  *)
(* LV, and the detach change is neither written, suspended for, committed  *)
(* nor resumed.                                                            *)
(***************************************************************************)
C16_SegtypeFailureReported ==
    \A i \in DOMAIN hist :
        (op = "remove" /\ hist[i] = Failed("get_segtype")) =>
            /\ i = Len(hist)
            /\ pc = "idle" => ret = FAIL
            /\ lvs[origin_lv].segments = <<>>

\* The external primitives lv_cache_create and lv_cache_remove call.
Primitives ==
    {"get_segtype", "insert_layer_for_lv", "attach_pool_lv",
     "lv_cache_policy_info", "lv_cache_block_info", "vg_write", "suspend_lv",
     "vg_commit", "resume_lv", "resume_lv(pool)", "detach_pool_lv",
     "lv_set_visible", "remove_seg_from_segs_using_this_lv",
     "move_lv_segments", "lv_add_virtual_segment", "activate_lv",
     "deactivate_lv", "lv_remove"}

Failures == {Failed(p) : p \in Primitives}

(***************************************************************************)
(* C17: in lv_cache_create and lv_cache_remove, once a primitive has       *)
(* reported failure no further primitive is called (no retry, no           *)
(* compensation, no later step) and the call returns failure.              *)
(***************************************************************************)
C17_FailureEndsTheCall ==
    \A i \in DOMAIN hist :
        hist[i] \in Failures =>
            /\ i = Len(hist)
            /\ pc = "idle" => ret = FAIL

\* The primitives that precede the teardown: the placeholder, the commit cycle
\* of the detach change, and the separate resume of the cache pool.
BeforeTeardown ==
    <<"lv_add_virtual_segment", "vg_write", "suspend_lv", "vg_commit",
      "resume_lv", "resume_lv(pool)">>

\* hist[i] comes right after the sequence s of calls.
RightAfter(i, s) ==
    /\ i > Len(s)
    /\ SubSeq(hist, i - Len(s), i - 1) = s

\* The call removed the hidden origin from the in-memory graph.
HiddenDeleted ==
    /\ op = "remove"
    /\ lv_is_cache(entry.lvs, arg_lv)
    /\ EntryOrigin \in DOMAIN entry.lvs
    /\ EntryOrigin \notin DOMAIN lvs

(***************************************************************************)
(* C18: in lv_cache_remove the teardown of the hidden LV starts only after *)
(* the commit cycle of the detach change has completed and the cache pool  *)
(* has been resumed by its own resume_lv, called after the resume of the   *)
(* cache LV; the teardown is activate_lv, deactivate_lv, lv_remove in that *)
(* order, and the hidden LV is deleted only if activate_lv and             *)
(* deactivate_lv both succeeded.                                           *)
(***************************************************************************)
C18_TeardownOrder ==
    /\ op = "remove" =>
          \A i \in DOMAIN hist :
              /\ hist[i] \in Either("resume_lv(pool)") =>
                    RightAfter(i, <<"vg_commit", "resume_lv">>)
              /\ hist[i] \in Either("activate_lv") =>
                    RightAfter(i, BeforeTeardown)
              /\ hist[i] \in Either("deactivate_lv") =>
                    RightAfter(i, BeforeTeardown \o <<"activate_lv">>)
              /\ hist[i] \in Either("lv_remove") =>
                    RightAfter(i, BeforeTeardown \o
                                      <<"activate_lv", "deactivate_lv">>)
    /\ pc \in {"r_activate", "r_deactivate", "r_lv_remove"} =>
          /\ ~staged
          /\ committed = lvs
          /\ suspended \cap {arg_lv, cache_pool_lv} = {}
    /\ pc = "r_lv_remove" => origin_lv \notin active
    /\ HiddenDeleted =>
          /\ hist # <<>>
          /\ Last(hist) = "lv_remove"
          /\ {"activate_lv", "deactivate_lv"} \subseteq Events
          /\ EntryOrigin \notin active

C18_Witness ==
    /\ HiddenDeleted
    /\ pc = "idle"
    /\ ret = OK
    /\ Len(hist) > 9
    /\ SubSeq(hist, Len(hist) - 8, Len(hist)) =
          BeforeTeardown \o <<"activate_lv", "deactivate_lv", "lv_remove">>

InFlushWait == pc \in {"r_block_info", "r_sleep"}

QueryFailed ==
    /\ pc = "idle"
    /\ ret = FAIL
    /\ hist # <<>>
    /\ Last(hist) = Failed("lv_cache_block_info")

\* A step taken in the flush wait stays in it, or leaves it on a reading of 0
\* for the pool unlink, or returns the failure of the query.
LeavesFlushWaitOnZeroOnly ==
    InFlushWait =>
        \/ InFlushWait'
        \/ /\ pc = "r_block_info"
           /\ pc' = "r_detach_pool"
           /\ dirty_blocks' = 0
           /\ Last(hist') = "lv_cache_block_info"
        \/ /\ pc = "r_block_info"
           /\ QueryFailed'

(***************************************************************************)
(* C19: the flush wait of lv_cache_remove is left only when a dirty-block  *)
(* query returns exactly 0 or fails, so that as long as every query        *)
(* succeeds with a nonzero count the call neither proceeds nor returns;    *)
(* and when each reading is strictly below the one before, the call        *)
(* eventually leaves the loop and reaches the pool unlink (unless a query  *)
(* fails).                                                                 *)
(***************************************************************************)
C19_FlushWaitExit ==
    /\ [][LeavesFlushWaitOnZeroOnly]_vars
    /\ (pc = "r_block_info") ~> (pc = "r_detach_pool" \/ QueryFailed)

C19_Witness ==
    /\ pc = "r_detach_pool"
    /\ dirty_blocks = 0
    /\ Count("lv_cache_block_info") = MaxDirty + 1

\* The placeholder lv_cache_remove puts on the emptied hidden LV.
Placeholder == Segment("error", entry.lvs[arg_lv].le_count, NULL, NULL, "", 0, "")

(***************************************************************************)
(* C20: lv_cache_remove calls neither vg_write nor vg_commit after         *)
(* lv_remove: when it returns success the authoritative metadata is the    *)
(* graph committed in the detach cycle, which still holds the hidden LV    *)
(* with its placeholder segment, while the in-memory graph is that graph   *)
(* without the hidden LV.                                                  *)
(***************************************************************************)
C20_HiddenLvStaysInCommitted ==
    /\ op = "remove" =>
          \A i \in DOMAIN hist :
              hist[i] \in Either("lv_remove") => i = Len(hist)
    /\ DetachSucceeded =>
          /\ Last(hist) = "lv_remove"
          /\ ~staged
          /\ EntryOrigin \in DOMAIN committed
          /\ committed[EntryOrigin].segments = <<Placeholder>>
          /\ EntryOrigin \notin DOMAIN lvs
          /\ lvs = lv_remove(committed, EntryOrigin)
          /\ committed # lvs

C20_Witness ==
    /\ DetachSucceeded
    /\ Last(hist) = "lv_remove"
    /\ EntryOrigin \in DOMAIN committed \ DOMAIN lvs
    /\ first_seg(committed, EntryOrigin).segtype = "error"
    /\ precommitted = committed

====
